---------------------------- MODULE Spec2Model ----------------------------
(***************************************************************************)
(* Model of frontend/src/hooks/useFeatureCalculator.js: the DataBuffer,    *)
(* the elevation lookup (fetchElevation / getElevation), reset() and       *)
(* calculateFeatures().                                                    *)
(*                                                                         *)
(* Numbers.  JavaScript doubles are modelled in fixed point: a quantity q  *)
(* is the integer q * S with S = 10 (tenths: 0.1 km/h, 0.1 m, 0.1 s,       *)
(* 0.1 m/s, 0.1 m/s^2, 0.1 %).  Each source expression is evaluated        *)
(* exactly over the integers and rounded once to the nearest tenth.        *)
(* Latitude and longitude are in units of 1e-5 degree.                     *)
(* Values that can be null, undefined or NaN in the program are tagged     *)
(* records [t, v]; arithmetic on them follows JavaScript (NaN propagates,  *)
(* every comparison with NaN is false).  Two specifications leave the      *)
(* tenths: SpecEma follows the smoothed slope in 1e-4 percent, and         *)
(* SpecRolling computes the rolling mean in binary floating point with a   *)
(* short significand, rounding after every operation as a double does.     *)
(*                                                                         *)
(* Concurrency.  A calculateFeatures call runs to its await of             *)
(* fetchElevation in one step; the call is then suspended (a record in     *)
(* calls) until its request settles, and the rest of getElevation and of   *)
(* calculateFeatures runs in the step that settles it.  A call that        *)
(* resolves its elevation without a request (cache, pending fallback)      *)
(* continues in a microtask, before any other task, and is one step.       *)
(***************************************************************************)
EXTENDS Integers, Sequences, FiniteSets, TLC

\* ------------------------------------------------------------------ bounds
MaxTicks == 2       \* samples delivered in one behaviour
MaxResets == 1      \* reset() calls in one behaviour
MaxAdds == 33       \* DataBuffer.add calls in one behaviour of SpecBuffer
MaxAwaitedResets == 2   \* reset() calls in one behaviour of SpecAwaited
MaxFreeTicks == 3       \* samples after the cache has filled, in SpecDrive
MaxEmaTicks == 20       \* ticks at one raw slope, in SpecEma
MaxRollTicks == 3       \* samples of one trip, in SpecRolling

\* ------------------------------------------------- fixed point, JS values
S == 10 ^ 1

Abs(x) == IF x < 0 THEN -x ELSE x
Min2(a, b) == IF a < b THEN a ELSE b
Max2(a, b) == IF a > b THEN a ELSE b

\* a / b rounded to the nearest integer (half away from zero), b > 0
RoundDiv(a, b) ==
  IF a >= 0 THEN (2 * a + b) \div (2 * b) ELSE -((2 * (-a) + b) \div (2 * b))

Null == [t |-> "null", v |-> 0]
Undefined == [t |-> "undefined", v |-> 0]
NaN == [t |-> "NaN", v |-> 0]
Num(n) == [t |-> "number", v |-> n]

IsNum(x) == x.t = "number"
\* Number.isFinite: a number that is not NaN (the model has no Infinity)
IsFinite(x) == x.t = "number"
\* JavaScript ToNumber: undefined -> NaN, null -> 0
ToNumber(x) ==
  IF x.t = "number" THEN x
  ELSE IF x.t = "null" THEN Num(0)
  ELSE NaN
\* JavaScript truthiness of a number, null or undefined
Truthy(x) == x.t = "number" /\ x.v # 0
\* The result of an arithmetic operation on the JS values a (and b): the
\* number n, computed from a.v (and b.v), or NaN when an operand is not a
\* number.  The v of null is 0, as ToNumber(null) is.
Arith1(a, n) == IF IsNum(ToNumber(a)) THEN Num(n) ELSE NaN
Arith2(a, b, n) == IF IsNum(ToNumber(a)) /\ IsNum(ToNumber(b)) THEN Num(n) ELSE NaN
JsSub(a, b) == Arith2(a, b, a.v - b.v)
JsAbs(a) == Arith1(a, Abs(a.v))
\* comparisons: false when either side is NaN
JsLt(a, n) == IsNum(ToNumber(a)) /\ ToNumber(a).v < n
JsLe(a, n) == IsNum(ToNumber(a)) /\ ToNumber(a).v <= n
JsGt(a, n) == IsNum(ToNumber(a)) /\ ToNumber(a).v > n
\* Math.max(lo, Math.min(hi, x)): NaN stays NaN
JsClamp(lo, hi, x) == Arith1(x, Max2(lo, Min2(hi, x.v)))

RECURSIVE SumSeq(_)
SumSeq(s) == IF s = <<>> THEN 0 ELSE Head(s) + SumSeq(Tail(s))
RECURSIVE MaxSeq(_)
MaxSeq(s) == IF Len(s) = 1 THEN s[1] ELSE Max2(Head(s), MaxSeq(Tail(s)))
RECURSIVE MinSeq(_)
MinSeq(s) == IF Len(s) = 1 THEN s[1] ELSE Min2(Head(s), MinSeq(Tail(s)))
LastOfValues(s) == s[Len(s)]
\* Math.sqrt on a non-negative integer, rounded down (bisection)
RECURSIVE SqrtIter(_, _, _)
SqrtIter(n, lo, hi) ==
  IF lo >= hi THEN lo
  ELSE LET mid == (lo + hi + 1) \div 2
       IN IF mid * mid <= n THEN SqrtIter(n, mid, hi) ELSE SqrtIter(n, lo, mid - 1)
Sqrt(n) == SqrtIter(n, 0, Min2(n, 46340))

\* ------------------------------------------------------------- DataBuffer
maxSize == 30

DataBuffer_add_evictNewest(data, point) ==
  IF Len(data) + 1 > maxSize THEN data ELSE Append(data, point)

DataBuffer_add_replaceLast(data, point) ==
  IF Len(data) > 0 THEN [data EXCEPT ![Len(data)] = point] ELSE <<point>>

DataBuffer_add(data, point) ==
  LET pushed == Append(data, point)
  IN IF Len(pushed) > maxSize THEN Tail(pushed) ELSE pushed

DataBuffer_getLast(data) == IF Len(data) > 0 THEN <<data[Len(data)]>> ELSE <<>>

DataBuffer_clear_shift(data) == IF Len(data) > 0 THEN Tail(data) ELSE data

DataBuffer_clear(data) == <<>>

\* data.slice(-window)
SliceLast(data, window) ==
  IF window = 0 \/ Len(data) <= window THEN data    \* slice(-0) is slice(0)
  ELSE SubSeq(data, Len(data) - window + 1, Len(data))

\* getStats over the numeric values vals (after the undefined / NaN filter)
StatsOf(vals) ==
  IF Len(vals) = 0 THEN [mean |-> 0, std |-> 0, max |-> 0, min |-> 0]
  ELSE LET n == Len(vals)
           sum == SumSeq(vals)
           \* sum((v - mean)^2) / n = (n * sum(v^2) - sum^2) / n^2
           sq == SumSeq([i \in 1..n |-> vals[i] * vals[i]])
       IN [mean |-> RoundDiv(sum, n),
           std |-> IF n > 1 THEN Sqrt(RoundDiv(n * sq - sum * sum, n * n)) ELSE 0,
           max |-> MaxSeq(vals),
           min |-> MinSeq(vals)]

\* getStats(key, window) for a key holding plain numbers
DataBuffer_getStats(data, key, window) ==
  LET w == SliceLast(data, window)
  IN StatsOf([i \in 1..Len(w) |-> w[i][key]])

\* getStats(key, window) for a key that may hold NaN: filter(!isNaN)
DataBuffer_getStatsJs(data, key, window) ==
  LET w == SliceLast(data, window)
      kept == SelectSeq(w, LAMBDA p : p[key] # Undefined /\ IsNum(ToNumber(p[key])))
  IN StatsOf([i \in 1..Len(kept) |-> ToNumber(kept[i][key]).v])

\* ------------------------------------------------------- pure functions
\* haversineDistance for two points on one meridian (lon1 = lon2), where the
\* formula reduces to R * |dLat| * PI / 180: 1e-5 degree is 1.11195 m, the
\* result is in tenths of a metre.
haversineDistance(lat1, lon1, lat2, lon2) ==
  RoundDiv(Abs(lat2 - lat1) * 111195, 10000)

getSpeedRegime(speed) ==
  IF speed < 30 * S THEN 0
  ELSE IF speed < 60 * S THEN 1
  ELSE IF speed < 90 * S THEN 2
  ELSE 3

getSlopeCategory(slope) ==
  IF JsLt(slope, -5 * S) THEN 0
  ELSE IF JsLt(slope, -2 * S) THEN 1
  ELSE IF JsLe(slope, 2 * S) THEN 2
  ELSE IF JsLe(slope, 5 * S) THEN 3
  ELSE 4

getTempCategory(temp) ==
  IF temp < 0 THEN 0
  ELSE IF temp < 10 * S THEN 1
  ELSE IF temp < 20 * S THEN 2
  ELSE IF temp < 30 * S THEN 3
  ELSE 4

\* ema(newValue, prevEma, alpha), alpha in hundredths
ema_fullPrev(newValue, prevEma, alpha) ==
  Arith2(newValue, prevEma, RoundDiv(alpha * newValue.v + 100 * prevEma.v, 100))

ema_alphaTenth(newValue, prevEma, alpha) ==
  Arith2(newValue, prevEma, RoundDiv(10 * newValue.v + 90 * prevEma.v, 100))

ema(newValue, prevEma, alpha) ==
  IF prevEma.t = "null" \/ prevEma.t = "undefined" THEN newValue
  ELSE Arith2(newValue, prevEma,
              RoundDiv(alpha * newValue.v + (100 - alpha) * prevEma.v, 100))

\* latitude.toFixed(4), longitude.toFixed(4)
CacheKey(latitude, longitude) == <<RoundDiv(latitude, 10), RoundDiv(longitude, 10)>>

\* ----------------------------------------------------------------- inputs
\* What the sample source delivers, on the meridian 10 degrees east.  delta is
\* the time since the previous sample of the source.  Latitudes 0 (the
\* equator) and 3 are 3.3 m apart and share a cache bucket; latitude 1000 is
\* 1.1 km away.
RawSample(latitude, speed, gpsAltitude, delta) ==
  [latitude |-> latitude, longitude |-> 1000000, speed |-> speed,
   gpsAltitude |-> gpsAltitude, delta |-> delta, soc |-> 80 * S, ambientTemp |-> 15 * S]
Driving == RawSample(3, 72 * S, Null, 1 * S)
OnEquator == RawSample(0, 72 * S, Num(55 * S), 20 * S)
Stopped == RawSample(1000, 0, Null, 20 * S)
RawSamples == {Driving, OnEquator, Stopped}
Elevs == {1000, 1003, 1005}     \* elevations the API can return: 100.0, 100.3, 100.5 m
CacheMax == 200
\* provenance of a value no sample contributed to: above every sample id
NoSample == CacheMax + MaxFreeTicks + 2 * MaxTicks + 1

\* ------------------------------------------------------------------ state
VARIABLES
  bufferRef,            \* bufferRef.current.data
  elevationCacheRef,    \* the Map, as its entries in insertion order
  lastElevationRef,
  smoothedSlopeRef,
  pendingElevationRef,
  tripStateRef,         \* tripStateRef.current: the index of its object in tripStates
  tripStates,           \* the trip-state objects that are still referenced
  features,             \* <<>> for null, else <<the feature vector>>
  stats,
  calls,                \* calculateFeatures calls suspended in fetchElevation
  clock,                \* timestamp of the latest sample (Date.now() / 1000)
  nextId,               \* ghost: samples delivered so far
  resetMark,            \* ghost: samples delivered before the latest reset()
  cleanTrip,            \* ghost: no call was in flight at the latest reset()
  prov,                 \* ghost: oldest sample the refs and outputs derive from
  undefinedSeen,        \* ghost: a lookup has returned a non-numeric elevation
  resolved,             \* ghost: how the latest finished call got its elevation
  resetRun,             \* ghost: reset() calls since the latest sample
  phase,                \* SpecTwoRuns ghost: "off", "record" or "replay"
  log,                  \* SpecTwoRuns ghost: the calls of the recorded run
  pos,                  \* SpecTwoRuns ghost: calls finished in the replay
  db,                   \* SpecBuffer: data of a stand-alone DataBuffer
  dbAdded,              \* SpecBuffer ghost: points added since the last clear
  dbCount,              \* SpecBuffer ghost: points added so far
  probe,                \* a function called on its own: its arguments and its result
  props                 \* the hook's props at the latest render: gpsData, config, enabled

vars == <<bufferRef, elevationCacheRef, lastElevationRef, smoothedSlopeRef,
          pendingElevationRef, tripStateRef, tripStates, features, stats, calls,
          clock, nextId, resetMark, cleanTrip, prov, undefinedSeen, resolved,
          resetRun, phase, log, pos, db, dbAdded, dbCount, probe, props>>

pipelineVars == <<bufferRef, elevationCacheRef, lastElevationRef, smoothedSlopeRef,
          pendingElevationRef, tripStateRef, tripStates, features, stats, calls,
          clock, nextId, resetMark, cleanTrip, prov, undefinedSeen, resolved,
          resetRun, phase, log, pos>>

\* the object reset(initialSoc) installs (oldest and initialSoc are ghosts:
\* the oldest sample the object derives from, the argument of the reset)
FreshTripState_defaultSoc(initialSoc) ==
  [cumulElevationGain |-> 0, cumulElevationLoss |-> 0, timeSinceStop |-> 0,
   lastSoc |-> 80 * S, startTime |-> Null, totalDistance |-> 0,
   oldest |-> NoSample, initialSoc |-> initialSoc]

FreshTripState(initialSoc) ==
  [cumulElevationGain |-> 0, cumulElevationLoss |-> 0, timeSinceStop |-> 0,
   lastSoc |-> initialSoc, startTime |-> Null, totalDistance |-> 0,
   oldest |-> NoSample, initialSoc |-> initialSoc]

ZeroStats ==
  [cumulElevationGain |-> 0, cumulElevationLoss |-> 0, timeSinceStop |-> 0,
   duration |-> 0, totalDistance |-> 0, elevationSource |-> "none"]

FreshProv ==
  [lastElevation |-> NoSample, smoothedSlope |-> NoSample,
   features |-> NoSample, stats |-> NoSample]

\* ghost: no call has finished since construction or the latest reset()
NotResolved == [id |-> 0, lookup |-> "none", tier |-> "none"]
\* ghost: the call's request outcome (lookup: "hit" no request, cached; "busy"
\* no request, one was pending; "ok"; "failed") and the tier its elevation
\* value came from
How(lookup, tier) == [lookup |-> lookup, tier |-> tier]

\* a trip-state object nothing refers to any more
Collected == FreshTripState(80 * S)

\* the hook after its first render, and a stand-alone DataBuffer
Mounted ==
  /\ bufferRef = <<>>
  /\ elevationCacheRef = <<>>
  /\ lastElevationRef = Null
  /\ smoothedSlopeRef = Num(0)
  /\ pendingElevationRef = FALSE
  /\ tripStateRef = 0
  /\ tripStates = [i \in 0..Max2(MaxResets, MaxAwaitedResets) |->
                     IF i = 0 THEN FreshTripState(80 * S) ELSE Collected]
  /\ features = <<>>
  /\ stats = ZeroStats
  /\ calls = {}
  /\ clock = 0
  /\ nextId = 0
  /\ resetMark = 0
  /\ cleanTrip = TRUE
  /\ prov = FreshProv
  /\ undefinedSeen = FALSE
  /\ resolved = NotResolved
  /\ resetRun = 0
  /\ phase = "off"
  /\ log = <<>>
  /\ pos = 0
  /\ db = <<>>
  /\ dbAdded = <<>>
  /\ dbCount = 0
  /\ props = [gpsData |-> <<>>, received |-> 0, enabled |-> TRUE,
              config |-> [soc |-> 80 * S, temperature |-> 15 * S]]

NoProbe == <<>>
Init == Mounted /\ probe = NoProbe

\* ------------------------------------------------------------ the cache
CacheHas(cache, key) == \E i \in 1..Len(cache) : cache[i].key = key
CacheEntry(cache, key) == cache[CHOOSE i \in 1..Len(cache) : cache[i].key = key]
\* Map.set (an existing key keeps its place), then the eviction of the first key
CacheSet_evictNewest(cache, key, value, id) ==
  LET entry == [key |-> key, value |-> value, id |-> id]
      put == IF CacheHas(cache, key)
               THEN [i \in 1..Len(cache) |-> IF cache[i].key = key THEN entry ELSE cache[i]]
               ELSE Append(cache, entry)
  IN IF Len(put) > CacheMax THEN SubSeq(put, 1, Len(put) - 1) ELSE put

CacheSet_coarseKey(cache, key, value, id) ==
  LET coarse == <<RoundDiv(key[1], 10), RoundDiv(key[2], 10)>>
      entry == [key |-> coarse, value |-> value, id |-> id]
      put == IF CacheHas(cache, coarse)
               THEN [i \in 1..Len(cache) |-> IF cache[i].key = coarse THEN entry ELSE cache[i]]
               ELSE Append(cache, entry)
  IN IF Len(put) > CacheMax THEN Tail(put) ELSE put

CacheSet(cache, key, value, id) ==
  LET entry == [key |-> key, value |-> value, id |-> id]
      put == IF CacheHas(cache, key)
               THEN [i \in 1..Len(cache) |-> IF cache[i].key = key THEN entry ELSE cache[i]]
               ELSE Append(cache, entry)
  IN IF Len(put) > CacheMax THEN Tail(put) ELSE put

\* ----------------------------------------------- calculateFeatures, part 2
\* lines 279: the time delta
TimeDelta_noUpper(lastPoint, timestamp) ==
  IF lastPoint # <<>>
    THEN Max2(1, timestamp - lastPoint[1].timestamp)
    ELSE 1 * S

TimeDelta(lastPoint, timestamp) ==
  IF lastPoint # <<>>
    THEN Max2(1, Min2(10 * S, timestamp - lastPoint[1].timestamp))
    ELSE 1 * S

\* speed / 3.6
SpeedMs(speed) == RoundDiv(speed * 10, 36)

\* lines 288-297: the distance of this tick
DistanceM_capFallback(lastPoint, sd, dt) ==
  IF lastPoint # <<>> /\ lastPoint[1].latitude # 0 /\ lastPoint[1].longitude # 0
    THEN haversineDistance(lastPoint[1].latitude, lastPoint[1].longitude,
                           sd.latitude, sd.longitude)
    ELSE RoundDiv(SpeedMs(sd.speed) * dt, S)

DistanceM(lastPoint, sd, dt) ==
  IF lastPoint # <<>> /\ lastPoint[1].latitude # 0 /\ lastPoint[1].longitude # 0
    THEN Min2(haversineDistance(lastPoint[1].latitude, lastPoint[1].longitude,
                                sd.latitude, sd.longitude), 50 * S)
    ELSE RoundDiv(SpeedMs(sd.speed) * dt, S)

\* lines 306-313: the raw slope, clamped
RawSlope_noClamp(elevationDiff, distanceM, speed) ==
  IF distanceM > 1 * S /\ speed > 2 * S
    THEN Arith1(elevationDiff, RoundDiv(elevationDiff.v * 100 * S, distanceM))
    ELSE Num(0)

RawSlope_inclusive(elevationDiff, distanceM, speed) ==
  JsClamp(-20 * S, 20 * S,
    IF distanceM >= 1 * S /\ speed >= 2 * S
      THEN Arith1(elevationDiff, RoundDiv(elevationDiff.v * 100 * S, distanceM))
      ELSE Num(0))

RawSlope(elevationDiff, distanceM, speed) ==
  JsClamp(-20 * S, 20 * S,
    IF distanceM > 1 * S /\ speed > 2 * S
      THEN Arith1(elevationDiff, RoundDiv(elevationDiff.v * 100 * S, distanceM))
      ELSE Num(0))

\* lines 338-343: the cumulative elevation counters of trip state ts
ElevationCounters_signedLoss(ts, elevationDiff) ==
  IF JsGt(elevationDiff, 3)
    THEN [ts EXCEPT !.cumulElevationGain = @ + elevationDiff.v]
  ELSE IF JsLt(elevationDiff, -3)
    THEN [ts EXCEPT !.cumulElevationLoss = @ + elevationDiff.v]
  ELSE ts

ElevationCounters_noFloor(ts, elevationDiff) ==
  IF JsGt(elevationDiff, 0)
    THEN [ts EXCEPT !.cumulElevationGain = @ + elevationDiff.v]
  ELSE IF JsLt(elevationDiff, 0)
    THEN [ts EXCEPT !.cumulElevationLoss = @ + Abs(elevationDiff.v)]
  ELSE ts

ElevationCounters(ts, elevationDiff) ==
  IF JsGt(elevationDiff, 3)
    THEN [ts EXCEPT !.cumulElevationGain = @ + elevationDiff.v]
  ELSE IF JsLt(elevationDiff, -3)
    THEN [ts EXCEPT !.cumulElevationLoss = @ + Abs(elevationDiff.v)]
  ELSE ts

\* lines 345-350
TimeSinceStop_inclusive(ts, speed) ==
  IF speed <= 1 * S THEN [ts EXCEPT !.timeSinceStop = 0]
  ELSE [ts EXCEPT !.timeSinceStop = @ + 1]

TimeSinceStop(ts, speed) ==
  IF speed < 1 * S THEN [ts EXCEPT !.timeSinceStop = 0]
  ELSE [ts EXCEPT !.timeSinceStop = @ + 1]

\* lines 388-392: the binary state flags
BinaryState_inclusive(acceleration, slope, speed) ==
  [is_accelerating |-> IF acceleration >= 1 THEN 1 ELSE 0,
   is_braking |-> IF acceleration <= -1 THEN 1 ELSE 0,
   is_coasting |-> IF Abs(acceleration) <= 1 /\ speed > 5 * S THEN 1 ELSE 0,
   regen_potential |-> IF JsLt(slope, -2 * S) /\ speed > 30 * S THEN 1 ELSE 0]

BinaryState(acceleration, slope, speed) ==
  [is_accelerating |-> IF acceleration > 1 THEN 1 ELSE 0,
   is_braking |-> IF acceleration < -1 THEN 1 ELSE 0,
   is_coasting |-> IF Abs(acceleration) < 1 /\ speed > 5 * S THEN 1 ELSE 0,
   regen_potential |-> IF JsLt(slope, -2 * S) /\ speed > 30 * S THEN 1 ELSE 0]

\* lines 357-407: the 36 features.  Flags, categories and time_since_stop
\* are plain integers, every other field is in tenths.
Computed(sd, acceleration, slope, elevationDiff, socDelta, ts, speedStats10, accelStats5, slopeStats20) ==
  LET speed == sd.speed
      s == slope.v
  IN [speed_kmh |-> Num(speed),
      speed2 |-> Num(RoundDiv(speed * speed, S)),
      speed3 |-> Num(RoundDiv(speed * speed * speed, S * S)),
      acceleration |-> Num(acceleration),
      slope |-> slope,
      slope_abs |-> JsAbs(slope),
      elevation_diff |-> elevationDiff,
      VCFRONT_tempAmbient |-> Num(sd.ambientTemp),
      temp_range |-> Num(3 * S),
      SOCave292 |-> Num(sd.soc),
      soc_delta |-> Num(socDelta),
      speed_x_slope |-> Arith1(slope, RoundDiv(speed * s, S)),
      speed2_x_slope |-> Arith1(slope, RoundDiv(speed * speed * s, S * S)),
      speed_x_slope_abs |-> Arith1(slope, RoundDiv(speed * Abs(s), S)),
      accel_x_speed |-> Num(RoundDiv(acceleration * speed, S)),
      accel_x_speed2 |-> Num(RoundDiv(acceleration * speed * speed, S * S)),
      total_effort |-> Arith1(slope, speed + Abs(s) * 10 + Abs(acceleration) * 5),
      speed_roll_mean_10 |-> Num(speedStats10.mean),
      speed_roll_std_10 |-> Num(speedStats10.std),
      speed_roll_max_10 |-> Num(speedStats10.max),
      speed_roll_min_10 |-> Num(speedStats10.min),
      accel_roll_mean_5 |-> Num(accelStats5.mean),
      accel_roll_std_5 |-> Num(accelStats5.std),
      slope_roll_mean_20 |-> Num(slopeStats20.mean),
      is_accelerating |-> Num(BinaryState(acceleration, slope, speed).is_accelerating),
      is_braking |-> Num(BinaryState(acceleration, slope, speed).is_braking),
      is_coasting |-> Num(BinaryState(acceleration, slope, speed).is_coasting),
      regen_potential |-> Num(BinaryState(acceleration, slope, speed).regen_potential),
      cumul_elevation_gain |-> Num(ts.cumulElevationGain),
      cumul_elevation_loss |-> Num(ts.cumulElevationLoss),
      time_since_stop |-> Num(ts.timeSinceStop),
      speed_regime |-> Num(getSpeedRegime(speed)),
      slope_category |-> Num(getSlopeCategory(slope)),
      temp_category |-> Num(getTempCategory(sd.ambientTemp)),
      accel_per_speed |-> Num(RoundDiv(acceleration * S, speed + 1 * S)),
      slope_per_speed |-> Arith1(slope, RoundDiv(s * S, speed + 1 * S))]

\* an object of tripStates is kept while tripStateRef or a suspended call holds it
Collect(heap, ref, live) ==
  [i \in DOMAIN heap |->
     IF i = ref \/ (\E c \in live : c.tripState = i) THEN heap[i] ELSE Collected]

\* Lines 278-422: calculateFeatures after its await, for the call c whose
\* getElevation returned {elevation, source}; heap is tripStates as the step
\* has it so far, live the calls still suspended after it, eprov (ghost) the
\* oldest sample the elevation derives from, how (ghost) the way the
\* elevation was obtained.
Finish(c, heap, live, elevation, source, eprov, how) ==
  LET sd == c.sensorData
      lastPoint == c.lastPoint
      dt == TimeDelta(lastPoint, sd.timestamp)
      speedMs == SpeedMs(sd.speed)
      prevSpeedMs == IF lastPoint # <<>> THEN SpeedMs(lastPoint[1].speed) ELSE speedMs
      rawAcceleration == RoundDiv((speedMs - prevSpeedMs) * S, dt)
      acceleration == Max2(-5 * S, Min2(5 * S, rawAcceleration))
      distanceM == DistanceM(lastPoint, sd, dt)
      prevElevation == IF lastElevationRef # Null THEN lastElevationRef ELSE elevation
      elevationDiff == JsSub(elevation, prevElevation)
      rawSlope == RawSlope(elevationDiff, distanceM, sd.speed)
      slope == ema(rawSlope, smoothedSlopeRef, 15)
      point == [timestamp |-> sd.timestamp, speed |-> sd.speed,
                acceleration |-> acceleration, slope |-> slope,
                elevation |-> elevation, soc |-> sd.soc,
                latitude |-> sd.latitude, longitude |-> sd.longitude,
                distanceM |-> distanceM, dt |-> dt,           \* ghost fields
                id |-> sd.id, hadPrev |-> lastPoint # <<>>]   \* ghost fields
      data == DataBuffer_add(bufferRef, point)
      speedStats10 == DataBuffer_getStats(data, "speed", 10)
      accelStats5 == DataBuffer_getStats(data, "acceleration", 5)
      slopeStats20 == DataBuffer_getStatsJs(data, "slope", 20)
      ts0 == heap[c.tripState]
      ts1 == [ts0 EXCEPT !.totalDistance = @ + distanceM]
      ts2 == TimeSinceStop(ElevationCounters(ts1, elevationDiff), sd.speed)
      socDelta == sd.soc - ts2.lastSoc
      slopeProv == Min2(Min2(prov.smoothedSlope, sd.id), Min2(eprov, prov.lastElevation))
      ts3 == [ts2 EXCEPT !.lastSoc = sd.soc,
                         !.oldest = Min2(Min2(@, sd.id), slopeProv)]
      outProv == Min2(ts3.oldest, data[1].id)
  IN /\ lastElevationRef' = elevation
     /\ smoothedSlopeRef' = slope
     /\ bufferRef' = data
     /\ tripStates' = Collect([heap EXCEPT ![c.tripState] = ts3], tripStateRef, live)
     /\ features' = <<Computed(sd, acceleration, slope, elevationDiff, socDelta, ts3,
                               speedStats10, accelStats5, slopeStats20)>>
     /\ stats' = [cumulElevationGain |-> ts3.cumulElevationGain,
                  cumulElevationLoss |-> ts3.cumulElevationLoss,
                  timeSinceStop |-> ts3.timeSinceStop,
                  totalDistance |-> ts3.totalDistance,
                  duration |-> IF Truthy(ts3.startTime) THEN clock' - ts3.startTime.v ELSE 0,
                  elevationSource |-> source]
     /\ prov' = [lastElevation |-> Min2(sd.id, eprov), smoothedSlope |-> slopeProv,
                 features |-> outProv, stats |-> outProv]
     /\ calls' = live
     /\ resolved' = [id |-> sd.id, lookup |-> how.lookup, tier |-> how.tier]
     /\ log' = IF phase = "record"
                 THEN Append(log, [sensorData |-> sd, lookup |-> how.lookup,
                                   api |-> IF how.lookup = "ok" THEN elevation ELSE Null,
                                   features |-> features'[1]])
                 ELSE log
     /\ pos' = IF phase = "replay" THEN pos + 1 ELSE pos

\* ------------------------------------------------- getElevation, the hook
\* Lines 227-249: getElevation after its await of fetchElevation, then the
\* rest of calculateFeatures.
\* line 240: does the sample carry an on-device altitude?
HasGpsAltitude_truthy(gpsAltitude) == Truthy(gpsAltitude)

HasGpsAltitude(gpsAltitude) == gpsAltitude # Null /\ gpsAltitude # Undefined

getElevation_resume(c, apiElevation) ==
  LET sd == c.sensorData
      live == calls \ {c}
  IN /\ pendingElevationRef' = FALSE
     /\ undefinedSeen' = (undefinedSeen \/ apiElevation = Undefined)
     /\ UNCHANGED <<tripStateRef, clock, nextId, resetMark, cleanTrip, resetRun,
                    phase, db, dbAdded, dbCount, probe, props>>
     /\ IF apiElevation # Null
          THEN /\ elevationCacheRef' =
                    CacheSet(elevationCacheRef, c.cacheKey, apiElevation, sd.id)
               /\ Finish(c, tripStates, live, apiElevation, "api", sd.id,
                         How("ok", "api"))
        ELSE IF HasGpsAltitude(sd.gpsAltitude)
          THEN /\ elevationCacheRef' = elevationCacheRef
               /\ Finish(c, tripStates, live, sd.gpsAltitude, "gps", sd.id,
                         How("failed", "gps"))
        ELSE IF lastElevationRef # Null
          THEN /\ elevationCacheRef' = elevationCacheRef
               /\ Finish(c, tripStates, live, lastElevationRef, "last", prov.lastElevation,
                         How("failed", "last"))
        ELSE /\ elevationCacheRef' = elevationCacheRef
             /\ Finish(c, tripStates, live, Num(0), "default", sd.id,
                       How("failed", "default"))

\* lines 216-222: is a request issued on a cache miss?
MayFetch_noGuard(pending) == TRUE

MayFetch(pending) == ~pending

\* lines 270-273: tripState.startTime after the test of a call
StartTime_falsy(startTime, timestamp) ==
  IF ~Truthy(startTime) THEN Num(timestamp) ELSE startTime

StartTime(startTime, timestamp) ==
  IF startTime = Null THEN Num(timestamp) ELSE startTime

\* Lines 255-276 and 207-226: calculateFeatures(sensorData) up to its await.
\* A cache hit and the pending fallback go on to the end of the call.
calculateFeatures(sensorData) ==
  LET sd == [sensorData EXCEPT !.id = nextId + 1]
      tripState == tripStateRef
      lastPoint == DataBuffer_getLast(bufferRef)
      heap == [tripStates EXCEPT ![tripState].startTime = StartTime(@, sd.timestamp)]
      cacheKey == CacheKey(sd.latitude, sd.longitude)
      c == [id |-> sd.id, sensorData |-> sd, lastPoint |-> lastPoint,
            tripState |-> tripState, cacheKey |-> cacheKey, stage |-> "fetch"]
  IN /\ nextId' = nextId + 1
     /\ clock' = sd.timestamp
     /\ resetRun' = 0
     /\ UNCHANGED <<tripStateRef, resetMark, cleanTrip, undefinedSeen, phase,
                    db, dbAdded, dbCount, probe>>
     /\ IF CacheHas(elevationCacheRef, cacheKey)
          THEN /\ Finish(c, heap, calls, CacheEntry(elevationCacheRef, cacheKey).value,
                         "cache", CacheEntry(elevationCacheRef, cacheKey).id,
                         How("hit", "cache"))
               /\ UNCHANGED <<elevationCacheRef, pendingElevationRef>>
        ELSE IF ~MayFetch(pendingElevationRef)
          THEN /\ IF lastElevationRef # Null
                    THEN Finish(c, heap, calls, lastElevationRef, "pending",
                                prov.lastElevation, How("busy", "pending"))
                    ELSE Finish(c, heap, calls,
                                IF Truthy(sd.gpsAltitude) THEN sd.gpsAltitude ELSE Num(0),
                                "gps", sd.id,
                                How("busy", IF IsNum(sd.gpsAltitude) THEN "gps" ELSE "default"))
               /\ UNCHANGED <<elevationCacheRef, pendingElevationRef>>
        ELSE /\ pendingElevationRef' = TRUE
             /\ calls' = calls \cup {c}
             /\ tripStates' = heap
             /\ UNCHANGED <<bufferRef, elevationCacheRef, lastElevationRef,
                            smoothedSlopeRef, features, stats, prov, resolved, log, pos>>

\* Lines 426-441, the effect: gpsData changes to one of samples (timestamps
\* do not decrease) and calculateFeatures is called, not awaited, with
\* altitude || null, timestamp || Date.now() / 1000.
Effect(p) ==
  LET gpsData == p.gpsData[1]
  IN calculateFeatures([id |-> 0, speed |-> gpsData.speed, latitude |-> gpsData.latitude,
                        longitude |-> gpsData.longitude,
                        gpsAltitude |-> IF Truthy(gpsData.altitude) THEN gpsData.altitude
                                        ELSE Null,
                        timestamp |-> IF gpsData.timestamp # 0 THEN gpsData.timestamp
                                      ELSE clock,
                        soc |-> p.config.soc, ambientTemp |-> p.config.temperature])

\* the props after gpsData has changed to sample s (received: a ghost that
\* tells two position objects apart)
NewGpsData(s) ==
  [props EXCEPT !.received = @ + 1,
                !.gpsData = <<[speed |-> s.speed, latitude |-> s.latitude,
                               longitude |-> s.longitude, altitude |-> s.gpsAltitude,
                               timestamp |-> clock + s.delta, n |-> props.received + 1]>>]

Delivered(s) ==
  /\ props.enabled
  /\ props' = NewGpsData(s)
  /\ Effect(NewGpsData(s))

Arrives(samples) == \E s \in samples : nextId < MaxTicks /\ Delivered(s)

SampleArrives == Arrives(RawSamples)

\* ---------------------------------------------------------- fetchElevation
\* Lines 68-95.  stage "fetch": awaiting fetch(), the 3 s abort timer armed;
\* stage "json": headers received with response.ok, the timer cleared
\* (line 78), awaiting response.json().

\* line 71: the timer fires, controller.abort() rejects fetch() with AbortError
AbortTimeout(c) == c.stage = "fetch" /\ getElevation_resume(c, Null)

\* lines 87-93: fetch() rejects (network error)
NetworkError(c) == c.stage = "fetch" /\ getElevation_resume(c, Null)

\* lines 80-83: an error status
ResponseNotOk(c) == c.stage = "fetch" /\ getElevation_resume(c, Null)

\* lines 73-85: a 2xx status; the timer is cleared and the body is awaited
ResponseOk(c) ==
  /\ c.stage = "fetch"
  /\ calls' = (calls \ {c}) \cup {[c EXCEPT !.stage = "json"]}
  /\ UNCHANGED <<bufferRef, elevationCacheRef, lastElevationRef, smoothedSlopeRef,
                 pendingElevationRef, tripStateRef, tripStates, features, stats,
                 clock, nextId, resetMark, cleanTrip, prov, undefinedSeen, resolved,
                 resetRun, phase, log, pos, db, dbAdded, dbCount, probe, props>>

\* lines 85-86: the body arrives with a numeric elevation
BodyElevation(c, e) == c.stage = "json" /\ getElevation_resume(c, Num(e))

\* lines 85-86: the body arrives without an elevation field: data.elevation
\* is undefined
BodyNoElevation(c) == c.stage = "json" /\ getElevation_resume(c, Undefined)

\* lines 85-93: response.json() rejects (not JSON, connection lost)
BodyInvalid(c) == c.stage = "json" /\ getElevation_resume(c, Null)

\* -------------------------------------------------------------------- reset
InitialSocs == {80 * S}

\* lines 179-202
reset_keepElevation(initialSoc) ==
  /\ bufferRef' = DataBuffer_clear(bufferRef)
  /\ elevationCacheRef' = <<>>
  /\ lastElevationRef' = lastElevationRef
  /\ smoothedSlopeRef' = Num(0)
  /\ pendingElevationRef' = FALSE
  /\ tripStateRef' = tripStateRef + 1
  /\ tripStates' = Collect([tripStates EXCEPT ![tripStateRef + 1] =
                              FreshTripState(initialSoc)], tripStateRef + 1, calls)
  /\ features' = <<>>
  /\ stats' = ZeroStats
  /\ resetMark' = nextId
  /\ cleanTrip' = (calls = {})
  /\ prov' = FreshProv
  /\ resolved' = NotResolved
  /\ resetRun' = resetRun + 1
  /\ phase' = IF phase = "record" THEN "replay" ELSE phase
  /\ UNCHANGED <<log, pos>>
  /\ UNCHANGED <<calls, clock, nextId, undefinedSeen, db, dbAdded, dbCount, probe, props>>

reset(initialSoc) ==
  /\ bufferRef' = DataBuffer_clear(bufferRef)
  /\ elevationCacheRef' = <<>>
  /\ lastElevationRef' = Null
  /\ smoothedSlopeRef' = Num(0)
  /\ pendingElevationRef' = FALSE
  /\ tripStateRef' = tripStateRef + 1
  /\ tripStates' = Collect([tripStates EXCEPT ![tripStateRef + 1] =
                              FreshTripState(initialSoc)], tripStateRef + 1, calls)
  /\ features' = <<>>
  /\ stats' = ZeroStats
  /\ resetMark' = nextId
  /\ cleanTrip' = (calls = {})
  /\ prov' = FreshProv
  /\ resolved' = NotResolved
  /\ resetRun' = resetRun + 1
  /\ phase' = IF phase = "record" THEN "replay" ELSE phase
  /\ UNCHANGED <<log, pos>>
  /\ UNCHANGED <<calls, clock, nextId, undefinedSeen, db, dbAdded, dbCount, probe, props>>

\* ------------------------------------------------------------ specification
Next ==
  \/ SampleArrives
  \/ \E c \in calls : AbortTimeout(c)
  \/ \E c \in calls : NetworkError(c)
  \/ \E c \in calls : ResponseNotOk(c)
  \/ \E c \in calls : ResponseOk(c)
  \/ \E c \in calls, e \in Elevs : BodyElevation(c, e)
  \/ \E c \in calls : BodyNoElevation(c)
  \/ \E c \in calls : BodyInvalid(c)
  \/ \E s \in InitialSocs : tripStateRef < MaxResets /\ reset(s)

Spec == Init /\ [][Next]_vars

\* Liveness: the same operations for a vehicle driving at 72 km/h, one sample
\* a second.  Fairness: a request does not await fetch()
\* for ever, since its abort timer fires after 3 s (TimerSettles is the effect
\* of AbortTimeout on calls); the server and the network promise nothing.
TimerSettles == \E c \in calls : c.stage = "fetch" /\ calls' = calls \ {c}

SteadySampleArrives == Arrives({Driving, OnEquator})

FairNext ==
  \/ SteadySampleArrives
  \/ \E c \in calls : AbortTimeout(c)
  \/ \E c \in calls : NetworkError(c)
  \/ \E c \in calls : ResponseNotOk(c)
  \/ \E c \in calls : ResponseOk(c)
  \/ \E c \in calls, e \in Elevs : BodyElevation(c, e)
  \/ \E c \in calls : BodyNoElevation(c)
  \/ \E c \in calls : BodyInvalid(c)
  \/ \E s \in InitialSocs : tripStateRef < MaxResets /\ reset(s)

FairSpec ==
  Init /\ [][FairNext]_vars /\ WF_calls(TimerSettles)

\* ------------------------------------- calls awaited one after the other
\* A caller of the hook that passes sensorData itself and awaits each
\* calculateFeatures call before the next call or reset():
\* altitude 0, timestamp 0 and a stalled clock reach the function as they are.
SensorSample(latitude, speed, gpsAltitude, delta, soc) ==
  [RawSample(latitude, speed, gpsAltitude, delta) EXCEPT !.soc = soc]
\* 68.4 km/h = 19 m/s at sea level, half a second after the previous sample
Slowing == SensorSample(1000, 684, Num(0), 5, 79 * S)
\* 1.0 km/h, 20 s after the previous sample
Crawling == SensorSample(3, 1 * S, Num(55 * S), 20 * S, 80 * S)
\* 0.9 km/h, the clock has not advanced
Halted == SensorSample(0, 9, Null, 0, 80 * S)
AwaitedSamples == {Driving, Slowing, Crawling, Halted}
AwaitedSocs == {50 * S, 80 * S}

Called(samples) ==
  \E s \in samples :
    /\ calls = {}
    /\ nextId < MaxTicks
    /\ calculateFeatures([id |-> 0, speed |-> s.speed, latitude |-> s.latitude,
                          longitude |-> s.longitude, gpsAltitude |-> s.gpsAltitude,
                          timestamp |-> clock + s.delta,
                          soc |-> s.soc, ambientTemp |-> s.ambientTemp])
    /\ UNCHANGED props

AwaitedNext ==
  \/ Called(AwaitedSamples)
  \/ \E c \in calls : AbortTimeout(c)
  \/ \E c \in calls : NetworkError(c)
  \/ \E c \in calls : ResponseNotOk(c)
  \/ \E c \in calls : ResponseOk(c)
  \/ \E c \in calls, e \in Elevs : BodyElevation(c, e)
  \/ \E c \in calls : BodyNoElevation(c)
  \/ \E c \in calls : BodyInvalid(c)
  \/ \E s \in AwaitedSocs : calls = {} /\ tripStateRef < MaxAwaitedResets /\ reset(s)

SpecAwaited == Init /\ [][AwaitedNext]_vars

\* ------------------------------------------------------- a long drive
\* A drive north at 72 km/h, one sample a second, each at a new cache key
\* (place k is at latitude k * 0.0001) and each looked up before the next
\* arrives, until CacheMax samples have been delivered; then MaxFreeTicks
\* more samples, at a new place or back at place 1 or 2, that need not wait
\* for each other.
Place(k) == RawSample(10 * k, 72 * S, Null, 1 * S)

DriveNext ==
  \/ calls = {} /\ nextId < CacheMax /\ Delivered(Place(nextId + 1))
  \/ \E k \in {1, 2, nextId + 1} :
       /\ nextId >= CacheMax
       /\ nextId < CacheMax + MaxFreeTicks
       /\ Delivered(Place(k))
  \/ \E c \in calls : ResponseOk(c)
  \/ \E c \in calls : BodyElevation(c, 1000)
  \/ \E c \in calls : nextId > CacheMax /\ NetworkError(c)

SpecDrive == Init /\ [][DriveNext]_vars

\* ----------------------------------------------- the same run, twice
\* A run from construction (the state reset(80) leaves) of awaited calls is
\* recorded: each call's sensorData and the outcome of its lookup.  Then
\* reset(80), and the recorded calls are made again with the recorded
\* outcomes.
StartRecording ==
  /\ phase = "off"
  /\ phase' = "record"
  /\ UNCHANGED <<bufferRef, elevationCacheRef, lastElevationRef, smoothedSlopeRef,
                 pendingElevationRef, tripStateRef, tripStates, features, stats,
                 calls, clock, nextId, resetMark, cleanTrip, prov, undefinedSeen,
                 resolved, resetRun, log, pos, db, dbAdded, dbCount, probe, props>>

RecordedSettles(c) ==
  \/ AbortTimeout(c)
  \/ ResponseNotOk(c)
  \/ ResponseOk(c)
  \/ \E e \in Elevs : BodyElevation(c, e)
  \/ BodyNoElevation(c)
  \/ BodyInvalid(c)

\* the recorded outcome of the call being replayed, by whatever route
ReplayedSettles(c) ==
  LET e == log[pos + 1]
  IN \/ e.lookup = "failed" /\ NetworkError(c)
     \/ e.lookup = "ok" /\ ResponseOk(c)
     \/ e.lookup = "ok" /\ IsNum(e.api) /\ BodyElevation(c, e.api.v)
     \/ e.lookup = "ok" /\ e.api = Undefined /\ BodyNoElevation(c)

TwoRunsNext ==
  \/ StartRecording
  \/ phase = "record" /\ Called(AwaitedSamples)
  \/ \E c \in calls : phase = "record" /\ RecordedSettles(c)
  \/ phase = "record" /\ calls = {} /\ nextId >= 1 /\ reset(80 * S)
  \/ phase = "replay" /\ calls = {} /\ pos < Len(log)
       /\ calculateFeatures(log[pos + 1].sensorData)
       /\ UNCHANGED props
  \/ \E c \in calls : phase = "replay" /\ pos < Len(log) /\ ReplayedSettles(c)

SpecTwoRuns == Init /\ [][TwoRunsNext]_vars

\* ------------------------------------------- the DataBuffer on its own
BufAdd ==
  /\ dbCount < MaxAdds
  /\ db' = DataBuffer_add(db, dbCount + 1)
  /\ dbAdded' = Append(dbAdded, dbCount + 1)
  /\ dbCount' = dbCount + 1
  /\ UNCHANGED <<pipelineVars, probe, props>>

BufClear ==
  /\ db' = DataBuffer_clear(db)
  /\ dbAdded' = <<>>
  /\ UNCHANGED <<dbCount, probe, props>>
  /\ UNCHANGED pipelineVars

BufNext == BufAdd \/ BufClear

SpecBuffer == Init /\ [][BufNext]_vars

\* ------------------------------------------- the effect and its props
\* Lines 426-441 with every dependency of the effect: it runs again after a
\* render in which gpsData, config or enabled has changed, with the props of
\* that render.  gpsData changes while the trip is active (the position
\* sources are enabled with it).
EffectSocs == {79 * S, 80 * S}

Rendered(p) ==
  /\ props' = p
  /\ IF p.enabled /\ p.gpsData # <<>>
       THEN nextId < MaxTicks /\ Effect(p)
       ELSE UNCHANGED <<pipelineVars, db, dbAdded, dbCount, probe>>

ConfigChanges ==
  \E soc \in EffectSocs \ {props.config.soc} : Rendered([props EXCEPT !.config.soc = soc])

EnabledChanges == Rendered([props EXCEPT !.enabled = ~@])

EffectNext ==
  \/ SampleArrives
  \/ ConfigChanges
  \/ EnabledChanges
  \/ \E c \in calls : AbortTimeout(c)
  \/ \E c \in calls : NetworkError(c)
  \/ \E c \in calls : ResponseNotOk(c)
  \/ \E c \in calls : ResponseOk(c)
  \/ \E c \in calls, e \in Elevs : BodyElevation(c, e)
  \/ \E c \in calls : BodyNoElevation(c)
  \/ \E c \in calls : BodyInvalid(c)

SpecEffect == Init /\ [][EffectNext]_vars

\* ------------------------------------------- functions on their own
rest == <<pipelineVars, db, dbAdded, dbCount, props>>

\* lines 306-313 for one tick: elevation differences from -1000 m to 1000 m,
\* distances around the 1.0 m threshold and up to the 50 m cap, speeds around
\* 2 km/h
SlopeDiffs == {-10000, -30, -20, -1, 0, 1, 20, 30, 10000}
SlopeDistances == {0, 5, 1 * S, 1 * S + 1, 10 * S, 50 * S}
SlopeSpeeds == {0, 2 * S - 1, 2 * S, 2 * S + 1, 72 * S}

SlopeInit ==
  /\ Mounted
  /\ \E e \in SlopeDiffs, d \in SlopeDistances, s \in SlopeSpeeds :
       probe = [elevationDiff |-> Num(e), distanceM |-> d, speed |-> s, rawSlope |-> <<>>]

SlopeComputed ==
  /\ probe.rawSlope = <<>>
  /\ probe' = [probe EXCEPT
                 !.rawSlope = <<RawSlope(probe.elevationDiff, probe.distanceM, probe.speed)>>]
  /\ UNCHANGED rest

SpecSlope == SlopeInit /\ [][SlopeComputed]_vars

\* lines 315-318 tick after tick with one raw slope: smoothedSlopeRef starts
\* at 0 (line 154).  The slopes are in 1e-4 percent here, so that nineteen
\* steps of 15 % are not lost in the rounding.
Fine == 10 ^ 4
EmaSlopes == {-20 * Fine, -3 * Fine, -Fine \div 10, Fine \div 10, Fine \div 2, 7 * Fine, 20 * Fine}

EmaInit ==
  /\ Mounted
  /\ \E r \in EmaSlopes :
       probe = [rawSlope |-> Num(r), smoothedSlope |-> Num(0), before |-> Num(0), ticks |-> 0]

EmaTick ==
  /\ probe.ticks < MaxEmaTicks
  /\ probe' = [probe EXCEPT !.smoothedSlope = ema(probe.rawSlope, probe.smoothedSlope, 15),
                            !.before = probe.smoothedSlope,
                            !.ticks = probe.ticks + 1]
  /\ UNCHANGED rest

SpecEma == EmaInit /\ [][EmaTick]_vars

\* lines 21-36 on a buffer of up to three points whose speed is missing, NaN
\* or a number, with windows of 0, 1, 2 and 10
StatsValues == {Undefined, NaN, Num(0), Num(5), Num(-20), Num(72 * S)}
StatsWindows == {0, 1, 2, 10}
StatsBuffers == UNION {[1..n -> [speed : StatsValues]] : n \in 0..3}

StatsInit ==
  /\ Mounted
  /\ \E data \in StatsBuffers, w \in StatsWindows :
       probe = [data |-> data, window |-> w, stats |-> <<>>, after |-> data]

StatsComputed ==
  /\ probe.stats = <<>>
  /\ probe' = [probe EXCEPT !.stats = <<DataBuffer_getStatsJs(probe.data, "speed", probe.window)>>,
                            !.after = probe.data]
  /\ UNCHANGED rest

SpecStats == StatsInit /\ [][StatsComputed]_vars

\* Lines 321-336 for the speed, in binary floating point.  A JS number has a
\* 53-bit significand; here it has SignificandBits bits, and every sum and
\* quotient is rounded to the nearest such number, ties to even, as the
\* additions of reduce() and the division by values.length are.  Speeds are
\* whole multiples of the unit in the last place of the binade
\* [2^(SignificandBits - 1), 2^SignificandBits).
SignificandBits == 4
FloatSpeeds == (2 ^ (SignificandBits - 1))..(2 ^ SignificandBits - 1)

\* the unit in the last place of num / den
RECURSIVE Ulp(_, _, _)
Ulp(num, den, u) ==
  IF num < 2 ^ SignificandBits * u * den THEN u ELSE Ulp(num, den, 2 * u)

\* num / den rounded to the nearest representable number, ties to even
FloatRound(num, den) ==
  LET u == Ulp(num, den, 1)
      q == num \div (den * u)
      twice == 2 * (num - q * den * u)
  IN IF twice > den * u \/ (twice = den * u /\ q % 2 = 1) THEN (q + 1) * u ELSE q * u

\* values.reduce((a, b) => a + b, 0)
RECURSIVE FloatSum(_)
FloatSum(vals) ==
  IF vals = <<>> THEN 0
  ELSE FloatRound(FloatSum(SubSeq(vals, 1, Len(vals) - 1)) + LastOfValues(vals), 1)

\* getStats('speed', window): mean, max and min
FloatStats(data, window) ==
  LET w == SliceLast(data, window)
      vals == [i \in 1..Len(w) |-> w[i].speed]
  IN IF Len(vals) = 0 THEN [mean |-> 0, max |-> 0, min |-> 0]
     ELSE [mean |-> FloatRound(FloatSum(vals), Len(vals)),
           max |-> MaxSeq(vals), min |-> MinSeq(vals)]

RollInit ==
  /\ Mounted
  /\ probe = [data |-> <<>>, features |-> <<>>]

\* one tick: buffer.add, then the speed statistics and the speed fields of
\* the feature vector
RollTick ==
  \E speed \in FloatSpeeds :
    /\ Len(probe.data) < MaxRollTicks
    /\ LET data == DataBuffer_add(probe.data, [speed |-> speed])
           speedStats10 == FloatStats(data, 10)
       IN probe' = [data |-> data,
                    features |-> <<[speed_kmh |-> speed,
                                    speed_roll_mean_10 |-> speedStats10.mean,
                                    speed_roll_max_10 |-> speedStats10.max,
                                    speed_roll_min_10 |-> speedStats10.min]>>]
    /\ UNCHANGED rest

SpecRolling == RollInit /\ [][RollTick]_vars

\* lines 388-392 for one tick: accelerations across the clamp range and at
\* the 0.1 thresholds, speeds around 5 and 30 km/h, slopes around -2 and NaN
FlagAccelerations == {-5 * S, -2, -1, 0, 1, 2, 5 * S}
FlagSpeeds == {0, 5 * S - 1, 5 * S, 5 * S + 1, 30 * S, 30 * S + 1, 72 * S}
FlagSlopes == {Num(-20 * S), Num(-2 * S - 1), Num(-2 * S), Num(0), NaN}

FlagsInit ==
  /\ Mounted
  /\ \E a \in FlagAccelerations, speed \in FlagSpeeds, slope \in FlagSlopes :
       probe = [acceleration |-> a, speed |-> speed, slope |-> slope, flags |-> <<>>]

FlagsComputed ==
  /\ probe.flags = <<>>
  /\ probe' = [probe EXCEPT
                 !.flags = <<BinaryState(probe.acceleration, probe.slope, probe.speed)>>]
  /\ UNCHANGED rest

SpecFlags == FlagsInit /\ [][FlagsComputed]_vars

\* ------------------------------------------------------------------ claims
InFlight(i) == \E c \in calls : c.id = i
TripState == tripStates[tripStateRef]
\* a step in which a calculateFeatures call runs to its end
TickDone == features' # <<>> /\ bufferRef' # bufferRef

\* C1: the timestamps of the buffered samples are non-decreasing in
\* insertion order, for every arrival schedule of calculateFeatures calls.
C1_BufferChronological ==
  \A i \in 1..(Len(bufferRef) - 1) :
    bufferRef[i].timestamp <= bufferRef[i + 1].timestamp

\* C2: in a trip that began with no call in flight, at most one
\* fetchElevation request is outstanding at any time.
C2_AtMostOneRequest == cleanTrip => Cardinality(calls) <= 1

\* C2 witness: the second call started while the request of the first was
\* outstanding, missed the cache, took the fallback and ran to its end; the
\* one request is still outstanding.
C2_Witness ==
  /\ cleanTrip
  /\ pendingElevationRef
  /\ Cardinality(calls) = 1 /\ InFlight(1)
  /\ Len(bufferRef) = 1 /\ bufferRef[1].id = 2

\* C3: every fetchElevation request that is issued eventually settles, and
\* pendingElevationRef eventually returns to false.
C3_EveryRequestSettles ==
  /\ \A i \in 1..MaxTicks : InFlight(i) ~> ~InFlight(i)
  /\ pendingElevationRef ~> ~pendingElevationRef

\* C4: after reset(), the buffer, the cache, the last known elevation, the
\* smoothed slope, the accumulators, features and stats hold nothing derived
\* from a sample received before the reset.
C4_NothingRetainedAcrossReset ==
  /\ \A i \in 1..Len(bufferRef) : bufferRef[i].id > resetMark
  /\ \A i \in 1..Len(elevationCacheRef) : elevationCacheRef[i].id > resetMark
  /\ prov.lastElevation > resetMark
  /\ prov.smoothedSlope > resetMark
  /\ TripState.oldest > resetMark
  /\ prov.features > resetMark
  /\ prov.stats > resetMark

\* C5: every field of every feature vector is a finite number, and
\* smoothedSlopeRef and lastElevationRef never hold a non-finite value once a
\* tick has produced one.
C5_FeaturesFinite ==
  /\ features # <<>> => \A f \in DOMAIN features[1] : IsFinite(features[1][f])
  /\ IsFinite(smoothedSlopeRef)
  /\ lastElevationRef # Null => IsFinite(lastElevationRef)

\* C6: the DataBuffer holds at most 30 samples; once more than 30 have been
\* added since the last clear it holds exactly the 30 most recently added, in
\* the order they were added.
C6_BufferBound ==
  /\ Len(db) <= maxSize
  /\ Len(dbAdded) > maxSize =>
       db = SubSeq(dbAdded, Len(dbAdded) - maxSize + 1, Len(dbAdded))

\* C6 witness: 32 samples added since the last clear, after an earlier clear.
C6_Witness == Len(dbAdded) = maxSize + 2 /\ dbCount > Len(dbAdded)

\* C7: a tick that has a previous sample in the buffer adds at most 50 m.
C7_DistanceCapped ==
  \A i \in 1..Len(bufferRef) :
    bufferRef[i].hadPrev => bufferRef[i].distanceM <= 50 * S

\* C8: for numeric elevation values, smoothedSlopeRef and the slope of every
\* buffered sample and feature vector lie in [-20, 20].
SlopeInRange(x) == IsNum(x) /\ -20 * S <= x.v /\ x.v <= 20 * S
C8_SlopeInRange ==
  ~undefinedSeen =>
    /\ SlopeInRange(smoothedSlopeRef)
    /\ \A i \in 1..Len(bufferRef) : SlopeInRange(bufferRef[i].slope)
    /\ features # <<>> => SlopeInRange(features[1].slope)

\* C8 witness: a raw slope beyond 20 % (55 m up over 3.3 m) was clamped and
\* smoothed: 0.15 * 20 = 3 %.
C8_Witness ==
  /\ ~undefinedSeen
  /\ Len(bufferRef) = 2
  /\ bufferRef[2].distanceM = 33
  /\ JsSub(bufferRef[2].elevation, bufferRef[1].elevation) = Num(55 * S)
  /\ smoothedSlopeRef = Num(3 * S)

\* C9: between two resets cumulElevationGain, cumulElevationLoss and
\* totalDistance never decrease.
C9_CountersMonotone ==
  [][tripStateRef' = tripStateRef =>
       /\ TripState'.cumulElevationGain >= TripState.cumulElevationGain
       /\ TripState'.cumulElevationLoss >= TripState.cumulElevationLoss
       /\ TripState'.totalDistance >= TripState.totalDistance]_vars

\* C9 witness: a trip with loss and distance accumulated.
C9_Witness ==
  /\ TripState.cumulElevationLoss > 0
  /\ TripState.totalDistance > 0
  /\ Len(bufferRef) = 2

\* C10: with d the resolved elevation minus the last known elevation, a tick
\* adds d to the gain alone if d > 0.3, |d| to the loss alone if d < -0.3,
\* and changes neither if -0.3 <= d <= 0.3.
C10_NoiseFloor ==
  [][TickDone /\ IsNum(lastElevationRef) =>
       LET done == calls \ calls'
           obj == IF done # {} THEN (CHOOSE c \in done : TRUE).tripState
                  ELSE tripStateRef
           d == JsSub(lastElevationRef', lastElevationRef)
           gain0 == tripStates[obj].cumulElevationGain
           loss0 == tripStates[obj].cumulElevationLoss
           gain1 == stats'.cumulElevationGain
           loss1 == stats'.cumulElevationLoss
       IN /\ JsGt(d, 3) => gain1 = gain0 + d.v /\ loss1 = loss0
          /\ JsLt(d, -3) => loss1 = loss0 + Abs(d.v) /\ gain1 = gain0
          /\ (IsNum(d) /\ -3 <= d.v /\ d.v <= 3) => gain1 = gain0 /\ loss1 = loss0]_vars

\* C10 witness: 100.0 m, then 100.5 m: the gain is 0.5 m, the loss 0.
C10_Witness ==
  /\ Len(bufferRef) = 2
  /\ bufferRef[1].elevation = Num(1000)
  /\ bufferRef[2].elevation = Num(1005)
  /\ stats.cumulElevationGain = 5
  /\ stats.cumulElevationLoss = 0

\* the call that runs to its end in this step, when it was suspended
Resumed == CHOOSE c \in calls \ calls' : TRUE
LastOf(seq) == seq[Len(seq)]

\* C11: when the lookup of a call fails (timeout, network error, error
\* status, unreadable body), the call still produces a feature vector, and
\* the elevation it uses is the sample's gpsAltitude if it has one (0
\* included), else the last known elevation if there is one, else 0.
C11_FallbackChain ==
  [][(resolved' # resolved /\ resolved'.lookup = "failed") =>
       LET g == Resumed.sensorData.gpsAltitude
           expected == IF g # Null /\ g # Undefined THEN g
                       ELSE IF lastElevationRef # Null THEN lastElevationRef
                       ELSE Num(0)
       IN /\ features' # <<>>
          /\ Len(bufferRef') = Len(bufferRef) + 1
          /\ LastOf(bufferRef').elevation = expected
          /\ lastElevationRef' = expected]_vars

\* C11 witness: the last known elevation is 100.0 m, the lookup of the next
\* sample, whose gpsAltitude is 0, failed, and the call used 0.
C11_Witness ==
  /\ resolved.lookup = "failed"
  /\ Len(bufferRef) = 2
  /\ bufferRef[1].elevation = Num(1000)
  /\ bufferRef[2].elevation = Num(0)
  /\ features # <<>> /\ features[1].elevation_diff = Num(-1000)

\* C12: stats.elevationSource names the tier the elevation of the latest
\* finished call came from ('none' before any call has finished).
C12_SourceNamesTier == stats.elevationSource = resolved.tier

\* a step that is a reset() / that begins a calculateFeatures call
IsReset == tripStateRef' # tripStateRef
IsCall == nextId' # nextId

\* C13: startTime is null after reset(); the first call after it sets it to
\* that call's timestamp (0 included); no later step changes it until the
\* next reset().
C13_StartTimeOnce ==
  [][/\ IsReset => TripState'.startTime = Null
     /\ (IsCall /\ TripState.startTime = Null) => TripState'.startTime = Num(clock')
     /\ (~IsReset /\ (~IsCall \/ TripState.startTime # Null)) =>
          TripState'.startTime = TripState.startTime]_vars

\* C13 witness: the first sample had timestamp 0, a second sample with a
\* later timestamp has been processed, and startTime is 0.
C13_Witness ==
  /\ TripState.startTime = Num(0)
  /\ Len(bufferRef) = 2
  /\ bufferRef[1].timestamp = 0
  /\ bufferRef[2].timestamp > 0

\* C14: a reset(initialSoc) with no call in flight leaves the buffer and the
\* cache empty, lastElevation null, smoothedSlope 0, the pending flag false,
\* the accumulators 0, startTime null, lastSoc = initialSoc, features null
\* and stats all-zero with elevationSource 'none'; the first call after it
\* has soc_delta = soc - initialSoc.
C14_ResetState ==
  [][/\ (IsReset /\ calls = {}) =>
          /\ bufferRef' = <<>>
          /\ elevationCacheRef' = <<>>
          /\ lastElevationRef' = Null
          /\ smoothedSlopeRef' = Num(0)
          /\ pendingElevationRef' = FALSE
          /\ TripState'.cumulElevationGain = 0
          /\ TripState'.cumulElevationLoss = 0
          /\ TripState'.timeSinceStop = 0
          /\ TripState'.totalDistance = 0
          /\ TripState'.startTime = Null
          /\ TripState'.lastSoc = TripState'.initialSoc
          /\ features' = <<>>
          /\ stats' = [cumulElevationGain |-> 0, cumulElevationLoss |-> 0,
                       timeSinceStop |-> 0, duration |-> 0, totalDistance |-> 0,
                       elevationSource |-> "none"]
     /\ (resolved = NotResolved /\ resolved' # NotResolved) =>
          features'[1].soc_delta =
            Num(LastOf(bufferRef').soc - TripState.initialSoc)]_vars

\* C14 witness: after a first sample, reset(50); the next sample has soc 79
\* and soc_delta 29.
C14_Witness ==
  /\ resetMark = 1 /\ nextId = 2
  /\ TripState.initialSoc = 50 * S
  /\ Len(bufferRef) = 1 /\ bufferRef[1].soc = 79 * S
  /\ features # <<>> /\ features[1].soc_delta = Num(29 * S)

\* the state of the hook: the refs, the current trip-state object, the outputs
TripFields(ts) ==
  [cumulElevationGain |-> ts.cumulElevationGain,
   cumulElevationLoss |-> ts.cumulElevationLoss,
   timeSinceStop |-> ts.timeSinceStop, lastSoc |-> ts.lastSoc,
   startTime |-> ts.startTime, totalDistance |-> ts.totalDistance]
HookState ==
  <<bufferRef, elevationCacheRef, lastElevationRef, smoothedSlopeRef,
    pendingElevationRef, TripFields(TripState), features, stats>>

\* C15: with no call in flight, a reset(s) that directly follows a reset(s)
\* leaves the state of the hook as the first one left it, so whatever
\* follows starts from the same state as after a single reset(s).
C15_ResetIdempotent ==
  [][(IsReset /\ calls = {} /\ resetRun >= 1 /\
      TripState'.initialSoc = TripState.initialSoc) =>
       HookState' = HookState]_vars

\* C15 witness: two samples were processed, then reset(50) twice in a row.
C15_Witness ==
  /\ resetRun = 2
  /\ nextId = 2 /\ resetMark = 2
  /\ calls = {}
  /\ TripState.initialSoc = 50 * S

\* a step in which a calculateFeatures call runs to its end
CallEnds == resolved'.id # resolved.id /\ ~IsReset
\* the number of samples at the end of the buffer with speed >= 1 km/h
RECURSIVE MovingRun(_)
MovingRun(data) ==
  IF data = <<>> \/ LastOf(data).speed < 1 * S THEN 0
  ELSE 1 + MovingRun(SubSeq(data, 1, Len(data) - 1))

\* C16: a tick with speed < 1 km/h sets timeSinceStop to 0, any other tick
\* adds exactly 1 whatever the time between the samples; so timeSinceStop is
\* the number of ticks since the latest tick with speed < 1 or reset.
C16_TimeSinceStop ==
  [][CallEnds =>
       /\ TripState'.timeSinceStop =
            IF LastOf(bufferRef').speed < 1 * S THEN 0
            ELSE TripState.timeSinceStop + 1
       /\ TripState'.timeSinceStop = MovingRun(bufferRef')
       /\ features'[1].time_since_stop = Num(TripState'.timeSinceStop)]_vars

\* C16 witness: two ticks 20 s apart, the second at exactly 1.0 km/h:
\* timeSinceStop is 2.
C16_Witness ==
  /\ Len(bufferRef) = 2
  /\ bufferRef[2].speed = 1 * S
  /\ bufferRef[2].timestamp - bufferRef[1].timestamp = 20 * S
  /\ TripState.timeSinceStop = 2

\* C17: a second run from reset(s) over the same samples, awaited one after
\* the other, with the same lookup outcome for each, issues a lookup for
\* the same samples and returns the same feature vector tick for tick.
C17_SameRunSameFeatures ==
  phase = "replay" =>
    /\ pos <= Len(log)
    /\ pos > 0 => /\ features = <<log[pos].features>>
                  /\ resolved.lookup = log[pos].lookup
    /\ calls # {} => pos < Len(log) /\ log[pos + 1].lookup \in {"ok", "failed"}

\* C17 witness: a run of two calls, the first with a lookup that succeeded
\* and the second with one that failed, has been replayed to its end.
C17_Witness ==
  /\ phase = "replay"
  /\ Len(log) = 2 /\ pos = 2
  /\ log[1].lookup = "ok" /\ log[2].lookup = "failed"
  /\ features = <<log[2].features>>

\* the trip-state object of the call that ends in this step
EndingTrip == IF calls' # calls THEN Resumed.tripState ELSE tripStateRef
\* the fields of a trip-state object that a call updates after its await
Accumulators(ts) ==
  <<ts.cumulElevationGain, ts.cumulElevationLoss, ts.timeSinceStop,
    ts.lastSoc, ts.totalDistance>>

\* C18: the step that ends a call appends exactly one sample to the buffer
\* and leaves the samples already there as they were, applies one EMA step
\* to smoothedSlope, one reset-or-increment to timeSinceStop and one
\* addition to totalDistance of the call's trip state; no other step but
\* reset() changes the buffer, smoothedSlope or an accumulator.
C18_OncePerCall ==
  [][/\ CallEnds =>
          LET p == LastOf(bufferRef')
              ts == tripStates[EndingTrip]
              prevElevation == IF lastElevationRef # Null THEN lastElevationRef
                               ELSE p.elevation
              raw == RawSlope(JsSub(p.elevation, prevElevation), p.distanceM, p.speed)
          IN /\ bufferRef' = IF Len(bufferRef) < maxSize THEN Append(bufferRef, p)
                             ELSE Append(Tail(bufferRef), p)
             /\ smoothedSlopeRef' = ema(raw, smoothedSlopeRef, 15)
             /\ stats'.timeSinceStop \in {0, ts.timeSinceStop + 1}
             /\ stats'.totalDistance = ts.totalDistance + p.distanceM
             /\ \A i \in DOMAIN tripStates :
                  i # EndingTrip =>
                    (tripStates'[i] = tripStates[i] \/ tripStates'[i] = Collected)
     /\ (~CallEnds /\ ~IsReset) =>
          /\ bufferRef' = bufferRef
          /\ smoothedSlopeRef' = smoothedSlopeRef
          /\ \A i \in DOMAIN tripStates :
               Accumulators(tripStates'[i]) = Accumulators(tripStates[i])]_vars

\* C18 witness: two overlapping calls have ended, the second one first;
\* the buffer holds one sample of each and timeSinceStop is 2.
C18_Witness ==
  /\ Len(bufferRef) = 2
  /\ bufferRef[1].id = 2 /\ bufferRef[2].id = 1
  /\ TripState.timeSinceStop = 2
  /\ calls = {}

\* the cache key of the call that begins in this step
NewKey ==
  IF calls' \ calls # {} THEN (CHOOSE c \in calls' \ calls : TRUE).cacheKey
  ELSE CacheKey(LastOf(bufferRef').latitude, LastOf(bufferRef').longitude)

\* C19: a call whose rounded coordinates are in the cache uses the cached
\* value and issues no lookup, also while a lookup is in flight; the cache
\* never holds more than 200 entries, and the insertion that would make it
\* 201 removes the entry inserted earliest and no other.
C19_CacheHitAndBound ==
  [][/\ (IsCall /\ CacheHas(elevationCacheRef, NewKey)) =>
          /\ calls' = calls
          /\ pendingElevationRef' = pendingElevationRef
          /\ elevationCacheRef' = elevationCacheRef
          /\ LastOf(bufferRef').elevation = CacheEntry(elevationCacheRef, NewKey).value
          /\ stats'.elevationSource = "cache"
     /\ Len(elevationCacheRef') <= 200
     /\ (CallEnds /\ resolved'.lookup = "ok") =>
          LET key == Resumed.cacheKey
          IN /\ CacheHas(elevationCacheRef', key)
             /\ CacheEntry(elevationCacheRef', key).value = LastOf(bufferRef').elevation
             /\ (Len(elevationCacheRef) = 200 /\ ~CacheHas(elevationCacheRef, key)) =>
                  /\ \A i \in 1..200 :
                       elevationCacheRef[i].id >= elevationCacheRef[1].id
                  /\ SubSeq(elevationCacheRef', 1, 199) = Tail(elevationCacheRef)
                  /\ elevationCacheRef'[200].key = key]_vars

\* C19 witness: the 201st insertion has removed the entry of place 1, the
\* entry of place 2 is now the oldest of 200, and a call at place 2 was
\* served from the cache while a lookup is in flight.
C19_Witness ==
  /\ Len(elevationCacheRef) = 200
  /\ elevationCacheRef[1].key = CacheKey(20, 1000000)
  /\ resolved.lookup = "hit"
  /\ LastOf(bufferRef).latitude = 20
  /\ pendingElevationRef /\ calls # {}

\* C20: with awaited calls, dt is 1 s when the buffer is empty, else the
\* timestamp minus the timestamp of the latest buffered sample, clamped to
\* [0.1, 10] s; the acceleration is the change of speed in m/s over dt,
\* clamped to [-5, 5] m/s^2 (0 when the buffer is empty).
C20_TimeDeltaAndAcceleration ==
  [][CallEnds =>
       LET p == LastOf(bufferRef')
           gap == p.timestamp - LastOf(bufferRef).timestamp
           dt == IF bufferRef = <<>> THEN 10
                 ELSE IF gap < 1 THEN 1 ELSE IF gap > 100 THEN 100 ELSE gap
           dv == IF bufferRef = <<>> THEN 0
                 ELSE SpeedMs(p.speed) - SpeedMs(LastOf(bufferRef).speed)
           a == RoundDiv(dv * 10, dt)
           acceleration == IF a < -50 THEN -50 ELSE IF a > 50 THEN 50 ELSE a
       IN /\ p.dt = dt
          /\ p.acceleration = acceleration
          /\ features'[1].acceleration = Num(acceleration)]_vars

\* C20 witness: 72 km/h, then 68.4 km/h half a second later: dt is 0.5 s and
\* the acceleration -2 m/s^2, inside both clamps.
C20_Witness ==
  /\ Len(bufferRef) = 2
  /\ bufferRef[1].speed = 72 * S /\ bufferRef[2].speed = 684
  /\ bufferRef[2].dt = 5
  /\ bufferRef[2].acceleration = -20
  /\ features # <<>> /\ features[1].acceleration = Num(-20)

\* C21: the raw slope of a tick is 0 unless the distance is above 1.0 m and
\* the speed above 2 km/h; when both hold it is elevation difference /
\* distance * 100 (to the nearest tenth), limited to [-20, 20]; 1000 m over
\* 10 m gives 20.
C21_RawSlope ==
  probe.rawSlope # <<>> =>
    LET e == probe.elevationDiff.v
        d == probe.distanceM
        out == probe.rawSlope[1]
    IN /\ IsNum(out)
       /\ ~(d > 1 * S /\ probe.speed > 2 * S) => out.v = 0
       /\ (d > 1 * S /\ probe.speed > 2 * S) =>
            /\ out.v \in (-20 * S)..(20 * S)
            /\ Abs(out.v) < 20 * S => 2 * Abs(out.v * d - e * 100 * S) <= d
            /\ out.v = 20 * S => 2 * e * 100 * S >= (2 * 20 * S - 1) * d
            /\ out.v = -20 * S => 2 * e * 100 * S <= (1 - 2 * 20 * S) * d
       /\ (e = 1000 * S /\ d = 10 * S /\ probe.speed > 2 * S) => out.v = 20 * S

\* C21 witness: 1000 m of climb over 10 m at 72 km/h gave a raw slope of 20.
C21_Witness ==
  /\ probe.elevationDiff = Num(1000 * S) /\ probe.distanceM = 10 * S /\ probe.speed = 72 * S
  /\ probe.rawSlope = <<Num(20 * S)>>

WindowValues(data, w) ==
  LET k == Min2(w, Len(data))
      last == [i \in 1..k |-> data[Len(data) - k + i].speed]
      nums == SelectSeq(last, IsNum)
  IN [i \in 1..Len(nums) |-> nums[i].v]

C24_Duration ==
  [][CallEnds =>
       /\ TripState'.startTime # Null
       /\ stats'.duration = clock' - TripState'.startTime.v]_vars

\* C25: the effect calls calculateFeatures once for each new gpsData sample
\* and at no other time: a render in which only config or enabled has
\* changed does not process the sample again.
C25_OncePerSample ==
  [][IsCall <=> props'.gpsData # props.gpsData]_vars

\* C26: pendingElevationRef is true exactly when a fetchElevation request is
\* outstanding, whatever the interleaving of samples, completions and resets.
C26_GuardExact == pendingElevationRef <=> calls # {}

\* C27: the cache changes, other than by being emptied in reset(), only when
\* a lookup completes with a value: the entry written is in the bucket of
\* the coordinates the lookup was issued for and holds the value it returned,
\* and every other entry was there before.  A call that takes its elevation
\* from the GPS altitude, the last elevation, the pending fallback or the
\* default writes nothing.
C27_CacheFromLookups ==
  [][(elevationCacheRef' # elevationCacheRef /\ ~IsReset) =>
       \E c \in calls \ calls' :
         LET key == CacheKey(c.sensorData.latitude, c.sensorData.longitude)
         IN /\ c.stage = "json"
            /\ resolved'.id = c.id /\ resolved'.lookup = "ok" /\ resolved'.tier = "api"
            /\ CacheHas(elevationCacheRef', key)
            /\ CacheEntry(elevationCacheRef', key).value = LastOf(bufferRef').elevation
            /\ \A i \in 1..Len(elevationCacheRef') :
                 elevationCacheRef'[i].key # key =>
                   \E j \in 1..Len(elevationCacheRef) :
                     elevationCacheRef[j] = elevationCacheRef'[i]]_vars

\* C27 witness: one lookup has filled the cache, and a later call whose
\* lookup failed took the last known elevation; the cache holds only the
\* first call's entry.
C27_Witness ==
  /\ Len(elevationCacheRef) = 1
  /\ resolved.lookup = "failed" /\ resolved.tier = "last"
  /\ elevationCacheRef[1].id # resolved.id

\* C28: the first call to finish after a reset() that found no call in flight
\* returns acceleration 0, elevation_diff 0 and slope 0 and leaves the
\* cumulative gain and loss at 0, whatever the sample and its elevation.
C28_FirstSampleAfterReset ==
  [][(CallEnds /\ bufferRef = <<>> /\ tripStateRef > 0 /\ cleanTrip) =>
       /\ features'[1].acceleration = Num(0)
       /\ features'[1].elevation_diff = Num(0)
       /\ features'[1].slope = Num(0)
       /\ TripState'.cumulElevationGain = 0 /\ TripState'.cumulElevationLoss = 0
       /\ features'[1].cumul_elevation_gain = Num(0)
       /\ features'[1].cumul_elevation_loss = Num(0)]_vars

\* C29: in every feature vector the speed lies between the rolling minimum
\* and the rolling maximum of the speed, and so does the rolling mean.
C29_RollingBounds ==
  probe.features # <<>> =>
    LET f == probe.features[1]
    IN /\ f.speed_roll_min_10 <= f.speed_kmh /\ f.speed_kmh <= f.speed_roll_max_10
       /\ f.speed_roll_min_10 <= f.speed_roll_mean_10
       /\ f.speed_roll_mean_10 <= f.speed_roll_max_10

\* C30: each of the four binary flags is 0 or 1, at most one of
\* is_accelerating, is_braking and is_coasting is 1, and all three are 0 when
\* |acceleration| is exactly 0.1 or when |acceleration| < 0.1 and the speed
\* is at most 5 km/h.
C30_BinaryFlags ==
  probe.flags # <<>> =>
    LET f == probe.flags[1]
        a == probe.acceleration
    IN /\ \A k \in DOMAIN f : f[k] \in {0, 1}
       /\ f.is_accelerating + f.is_braking + f.is_coasting <= 1
       /\ (Abs(a) = 1 \/ (Abs(a) < 1 /\ probe.speed <= 5 * S)) =>
            f.is_accelerating + f.is_braking + f.is_coasting = 0

\* C30 witness: at 72 km/h with an acceleration of exactly -0.1 the vehicle
\* is neither accelerating nor braking nor coasting.
C30_Witness ==
  /\ probe.acceleration = -1 /\ probe.speed = 72 * S
  /\ probe.flags # <<>>
  /\ probe.flags[1].is_braking = 0 /\ probe.flags[1].is_coasting = 0

=============================================================================
